---- MODULE Spec2Model ----
(***************************************************************************)
(* csv2html: a CSV file is loaded by repair_and_read_csv (a search over    *)
(* encodings and delimiters with pandas.read_csv, then a manual parser),   *)
(* normalised and rendered by create_html_from_csv, written by             *)
(* convert_csv_to_html, and main turns the result into an exit status.     *)
(* The generated page carries a script that filters, resets and exports    *)
(* the table rows.                                                         *)
(*                                                                         *)
(* A text is a sequence of one-character strings; a file is the sequence   *)
(* of its bytes, with "\n" between lines.                                  *)
(***************************************************************************)
EXTENDS Integers, Sequences, FiniteSets, TLC

VARIABLES
    pc,             \* position of the command-line run
    inputExists,    \* input_path.exists()
    inputSuffix,    \* input_path.suffix
    fileBytes,      \* the content of the input file
    trueDelim,      \* the delimiter the input file was written with
    encIdx,         \* repair_and_read_csv: index of the encoding being tried
    delimIdx,       \* repair_and_read_csv: index of the delimiter being tried
    tried,          \* the <<encoding, delimiter>> attempts made so far, in order
    outcomes,       \* for each attempt made: "error", "rejected" or "accepted"
    df,             \* what repair_and_read_csv returned
    table,          \* the normalised table handed to the page generator
    html,           \* html_content: "none", "data" or "error"
    outputFile,     \* the output file: "absent", "data" or "error"
    result,         \* what convert_csv_to_html returned: "unset", "None" or "path"
    exitStatus,     \* main's exit status, -1 while running
    loaderCalls,    \* calls of repair_and_read_csv
    generatorCalls, \* calls of create_enhanced_html_template
    filterSelects,  \* the filter selects of the page generated last, in column order
    searchValue,    \* page: searchInput.value
    filterValue,    \* page: select.value of each column's filter
    filteredRows,   \* page: the script's filteredRows, as indices of originalRows
    rowDisplay,     \* page: style.display of each row of the table body
    filteredShown,  \* page: the number shown by the filtered-rows indicator
    totalShown,     \* page: the number shown by the total-rows indicator
    timers,         \* page: the setTimeout callbacks not yet run, oldest first
    overlay,        \* page: the loading overlay has the class show
    download,       \* page: csvContent offered by the latest step, <<>> if none
    afterReset      \* page: "reset" once a reset has run and nothing was entered
                    \* since, "recomputed" once applyFilters has run after that

cliVars == <<pc, inputExists, inputSuffix, fileBytes, trueDelim, encIdx, delimIdx,
             tried, outcomes, df, table, html, outputFile, result, exitStatus,
             loaderCalls, generatorCalls, filterSelects>>

pageVars == <<searchValue, filterValue, filteredRows, rowDisplay, filteredShown,
              totalShown, timers, overlay, download, afterReset>>

vars == <<cliVars, pageVars>>

(***************************************************************************)
(* Bounds of the model.                                                    *)
(***************************************************************************)
MaxCells == 4       \* cells (header cells included) of a generated input file
MaxRows == 2        \* rows of the table of a generated page
MaxPending == 2     \* setTimeout callbacks pending at once
MaxFieldCells == 6  \* cells (header cells included) of a file of SpecFields
MaxOptionRows == 3  \* data rows of a file of SpecGenerate

(***************************************************************************)
(* Text helpers: str.strip, str.split, membership.                         *)
(***************************************************************************)
NL == "\n"
QUOTE == "\""
Whitespace == {" ", "\t", NL}

RECURSIVE LStripSet(_, _)
LStripSet(s, cs) ==
    IF s # <<>> /\ Head(s) \in cs THEN LStripSet(Tail(s), cs) ELSE s

RECURSIVE RStripSet(_, _)
RStripSet(s, cs) ==
    IF s # <<>> /\ s[Len(s)] \in cs THEN RStripSet(SubSeq(s, 1, Len(s) - 1), cs) ELSE s

\* str.strip(): every leading and trailing whitespace character is removed
Strip(s) == RStripSet(LStripSet(s, Whitespace), Whitespace)

\* str.strip('"'): every leading and trailing double quote is removed
StripQuotes(s) == RStripSet(LStripSet(s, {QUOTE}), {QUOTE})

RECURSIVE SplitRec(_, _, _)
SplitRec(s, d, cur) ==
    IF s = <<>> THEN <<cur>>
    ELSE IF Head(s) = d THEN <<cur>> \o SplitRec(Tail(s), d, <<>>)
    ELSE SplitRec(Tail(s), d, Append(cur, Head(s)))

\* str.split(d)
Split(s, d) == SplitRec(s, d, <<>>)

Contains(s, c) == \E i \in 1..Len(s) : s[i] = c

(***************************************************************************)
(* Encodings.  BadByte stands for a byte such as 0xE9 that is not valid    *)
(* UTF-8 on its own and is a letter in the single-byte encodings.          *)
(***************************************************************************)
Encodings == <<"utf-8", "latin-1", "cp1252", "iso-8859-1">>
Delimiters == <<",", ";", "\t", "|">>
ManualDelimiters == <<";", "\t", "|", ",">>

BadByte == "0xE9"
Latin1Char == "U+00E9"

DecodeFails(bytes, enc) == enc = "utf-8" /\ Contains(bytes, BadByte)

Decode(bytes, enc) ==
    [i \in 1..Len(bytes) |-> IF bytes[i] = BadByte THEN Latin1Char ELSE bytes[i]]

\* open(..., encoding='utf-8', errors='ignore').read()
DecodeIgnore(bytes) == SelectSeq(bytes, LAMBDA c : c # BadByte)

(***************************************************************************)
(* pandas.read_csv(file, encoding=e, sep=d, skipinitialspace=True,         *)
(* quotechar='"'): the C tokenizer's states, the header row, the implicit  *)
(* index, missing values.                                                  *)
(***************************************************************************)
Pad(row, n) == row \o [k \in 1..(n - Len(row)) |-> <<>>]

\* end of a line: a line after the first data line with more fields than the
\* line before it is an error; a shorter line is padded with empty fields
EndLine(rows, row) ==
    LET lines == Len(rows)
        ex == IF lines > 0 THEN Len(rows[lines]) ELSE 0
    IN  IF lines > 1 /\ Len(row) > ex
            THEN [err |-> TRUE, rows |-> rows]
        ELSE IF lines >= 1 /\ Len(row) < ex
            THEN [err |-> FALSE, rows |-> Append(rows, Pad(row, ex))]
        ELSE [err |-> FALSE, rows |-> Append(rows, row)]

RECURSIVE BlankUntil(_, _, _)
\* the index after a whitespace-only line that starts at i; 0 when the line
\* holds anything else (the delimiter included)
BlankUntil(text, i, d) ==
    IF i > Len(text) THEN i
    ELSE IF text[i] = NL THEN i + 1
    ELSE IF text[i] \in {" ", "\t"} /\ text[i] # d THEN BlankUntil(text, i + 1, d)
    ELSE 0

RECURSIVE Tok(_, _, _, _, _, _, _)
Tok(text, i, d, state, field, row, rows) ==
    IF i > Len(text) THEN
        IF state = "START_RECORD" THEN [err |-> FALSE, rows |-> rows]
        ELSE IF state = "IN_QUOTED_FIELD" THEN [err |-> TRUE, rows |-> rows]
        ELSE EndLine(rows, Append(row, field))
    ELSE
        LET c == text[i]
            endLine == EndLine(rows, Append(row, field))
            NextLine == IF endLine.err THEN endLine
                        ELSE Tok(text, i + 1, d, "START_RECORD", <<>>, <<>>, endLine.rows)
            NextField == Tok(text, i + 1, d, "START_FIELD", <<>>, Append(row, field), rows)
        IN
        CASE state = "START_RECORD" ->
                IF c = NL THEN Tok(text, i + 1, d, "START_RECORD", <<>>, <<>>, rows)
                ELSE IF c \in {" ", "\t"} /\ c # d /\ BlankUntil(text, i, d) # 0
                    THEN Tok(text, BlankUntil(text, i, d), d, "START_RECORD", <<>>, <<>>, rows)
                ELSE Tok(text, i, d, "START_FIELD", <<>>, <<>>, rows)
          [] state = "START_FIELD" ->
                IF c = NL THEN NextLine
                ELSE IF c = QUOTE THEN Tok(text, i + 1, d, "IN_QUOTED_FIELD", field, row, rows)
                ELSE IF c = " " /\ c # d THEN Tok(text, i + 1, d, "START_FIELD", field, row, rows)
                ELSE IF c = d THEN NextField
                ELSE Tok(text, i + 1, d, "IN_FIELD", Append(field, c), row, rows)
          [] state = "IN_FIELD" ->
                IF c = NL THEN NextLine
                ELSE IF c = d THEN NextField
                ELSE Tok(text, i + 1, d, "IN_FIELD", Append(field, c), row, rows)
          [] state = "IN_QUOTED_FIELD" ->
                IF c = QUOTE THEN Tok(text, i + 1, d, "QUOTE_IN_QUOTED_FIELD", field, row, rows)
                ELSE Tok(text, i + 1, d, "IN_QUOTED_FIELD", Append(field, c), row, rows)
          [] OTHER -> \* QUOTE_IN_QUOTED_FIELD
                IF c = QUOTE THEN Tok(text, i + 1, d, "IN_QUOTED_FIELD", Append(field, c), row, rows)
                ELSE IF c = d THEN NextField
                ELSE IF c = NL THEN NextLine
                ELSE Tok(text, i + 1, d, "IN_FIELD", Append(field, c), row, rows)

Tokenize(text, d) == Tok(text, 1, d, "START_RECORD", <<>>, <<>>, <<>>)

\* a missing value of a DataFrame
NaN == <<"<NaN>">>

\* the field texts read_csv turns into missing values by default
NaValues == { <<>>, <<"N", "A">>, <<"N", "a", "N">>, <<"n", "a", "n">>,
              <<"N", "/", "A">>, <<"n", "/", "a">>, <<"#", "N", "/", "A">>,
              <<"#", "N", "A">>, <<"<", "N", "A", ">">>, <<"N", "U", "L", "L">>,
              <<"n", "u", "l", "l">>, <<"N", "o", "n", "e">> }

Cell(field) == IF field \in NaValues THEN NaN ELSE field

\* header names: an empty name becomes Unnamed: <position>, a repeated name
\* gets .<number of earlier occurrences>
HeaderName(header, i) ==
    LET name == IF header[i] = <<>> THEN <<"Unnamed: ", ToString(i - 1)>> ELSE header[i]
        earlier == Cardinality({j \in 1..(i - 1) : header[j] = header[i] /\ header[j] # <<>>})
    IN  IF earlier > 0 THEN name \o <<".", ToString(earlier)>> ELSE name

NoFrame(status) == [status |-> status, columns |-> <<>>, rows |-> <<>>]

\* the header fields and the data fields of the columns, as tokenized
Parsed(bytes, enc, d) ==
    IF DecodeFails(bytes, enc) THEN NoFrame("UnicodeDecodeError")
    ELSE
        LET tok == Tokenize(Decode(bytes, enc), d) IN
        IF tok.err THEN NoFrame("ParserError")
        ELSE IF tok.rows = <<>> THEN NoFrame("EmptyDataError")
        ELSE
            LET header == tok.rows[1]
                data == Tail(tok.rows)
                h == Len(header)
                \* leading fields of the data lines beyond the header's are the index
                leading == IF data # <<>> /\ Len(data[1]) > h THEN Len(data[1]) - h ELSE 0
            IN  [status |-> "ok",
                 columns |-> header,
                 rows |-> [r \in 1..Len(data) |-> [i \in 1..h |-> data[r][leading + i]]]]

ReadCsv(bytes, enc, d) ==
    LET parsed == Parsed(bytes, enc, d) IN
    IF parsed.status # "ok" THEN parsed
    ELSE [status |-> "ok",
          columns |-> [i \in 1..Len(parsed.columns) |-> HeaderName(parsed.columns, i)],
          rows |-> [r \in 1..Len(parsed.rows) |-> [i \in 1..Len(parsed.rows[r]) |-> Cell(parsed.rows[r][i])]]]

NotNaCount(row) == Cardinality({i \in 1..Len(row) : row[i] # NaN})

\* a test that asks for more than two columns
AcceptableMoreThanTwoColumns(frame) ==
    /\ Len(frame.columns) > 2
    /\ Len(frame.rows) > 0
    /\ 2 * NotNaCount(frame.rows[1]) > Len(frame.columns)

\* the ratio compared with >= 0.5
AcceptableAtLeastHalf(frame) ==
    /\ Len(frame.columns) > 1
    /\ Len(frame.rows) > 0
    /\ 2 * NotNaCount(frame.rows[1]) >= Len(frame.columns)

\* len(df.columns) > 1 and len(df) > 0 and
\* df.iloc[0].notna().sum() / len(df.columns) > 0.5
Acceptable(frame) ==
    /\ Len(frame.columns) > 1
    /\ Len(frame.rows) > 0
    /\ 2 * NotNaCount(frame.rows[1]) > Len(frame.columns)

(***************************************************************************)
(* The manual parser of repair_and_read_csv.                               *)
(***************************************************************************)
ManualLines(bytes) ==
    LET split == Split(DecodeIgnore(bytes), NL)
    IN  SelectSeq([i \in 1..Len(split) |-> Strip(split[i])], LAMBDA l : l # <<>>)

RECURSIVE FirstPresent(_, _, _)
FirstPresent(line, ds, i) ==
    IF i > Len(ds) THEN ","
    ELSE IF Contains(line, ds[i]) THEN ds[i]
    ELSE FirstPresent(line, ds, i + 1)

ManualDelimiter(firstLine) == FirstPresent(firstLine, ManualDelimiters, 1)

\* [cell.strip().strip('"') for cell in line.split(delimiter)]
ManualCells(line, d) ==
    LET cells == Split(line, d)
    IN  [i \in 1..Len(cells) |-> StripQuotes(Strip(cells[i]))]

\* a test that also keeps the rows shorter than the header
KeepRowNotLonger(row, headers) == Len(row) <= Len(headers)

\* if len(row) == len(headers): data.append(row)
KeepRow(row, headers) == Len(row) = Len(headers)

ManualParse(bytes) ==
    LET lines == ManualLines(bytes) IN
    IF Len(lines) < 2 THEN NoFrame("None")
    ELSE
        LET d == ManualDelimiter(lines[1])
            headers == ManualCells(lines[1], d)
            data == SelectSeq([k \in 1..(Len(lines) - 1) |-> ManualCells(lines[k + 1], d)],
                              LAMBDA row : KeepRow(row, headers))
        IN  IF data # <<>>
                THEN [status |-> "ok", columns |-> headers, rows |-> data]
                ELSE NoFrame("None")

(***************************************************************************)
(* create_html_from_csv: the checks on the frame and its normalisation.    *)
(***************************************************************************)
\* df is None or df.empty
Unusable(frame) ==
    frame.status # "ok" \/ Len(frame.columns) = 0 \/ Len(frame.rows) = 0

\* df.columns.str.strip()
CleanColumns(frame) == [i \in 1..Len(frame.columns) |-> Strip(frame.columns[i])]

\* a loop over the columns that never raises
RepeatedLabelIgnored(columns) == FALSE

\* with a repeated column label df[col] is a frame, and df[col].dtype raises
RepeatedLabel(columns) ==
    \E i, j \in 1..Len(columns) : i < j /\ columns[i] = columns[j]

\* the missing values replaced, the texts left as they are
CleanCellUntrimmed(c) == IF c = NaN THEN <<>> ELSE c

\* df.fillna('') and, for the object columns, astype(str).str.strip()
CleanCell(c) == IF c = NaN THEN <<>> ELSE Strip(c)

Normalize(frame) ==
    [columns |-> CleanColumns(frame),
     rows |-> [r \in 1..Len(frame.rows) |-> [i \in 1..Len(frame.rows[r]) |-> CleanCell(frame.rows[r][i])]]]

NoTable == [columns |-> <<>>, rows |-> <<>>]

(***************************************************************************)
(* convert_csv_to_html: the checks on the input path.                      *)
(***************************************************************************)
LowerChar(c) ==
    CASE c = "A" -> "a" [] c = "B" -> "b" [] c = "C" -> "c"
      [] c = "S" -> "s" [] c = "V" -> "v" [] c = "X" -> "x"
      [] OTHER -> c

\* str.lower() and String.prototype.toLowerCase()
Lower(s) == [i \in 1..Len(s) |-> LowerChar(s[i])]

\* a check that only asks for some extension
SuffixHasExtension(suffix) == suffix # <<>>

\* input_path.suffix.lower() == '.csv'
SuffixIsCsv(suffix) == Lower(suffix) = <<".", "c", "s", "v">>

(***************************************************************************)
(* The input files of the model: up to MaxCells cells, each empty or       *)
(* filled, separated by the file's delimiter or by a line break.  A filled *)
(* header cell holds the name of its column, a filled data cell the word   *)
(* of the file.                                                            *)
(***************************************************************************)
ColumnNames == <<"a", "b", "c", "d", "e", "f", "g", "h">>

Words == { <<"x">>, <<BadByte>>, <<"p", ",", "q">>, <<"N", "A">> }

RECURSIVE Build(_, _, _, _, _, _, _)
Build(i, filled, brk, word, d, inHeader, col) ==
    IF i > Len(filled) THEN <<>>
    ELSE
        LET text == IF ~filled[i] THEN <<>>
                    ELSE IF inHeader THEN <<ColumnNames[col]>>
                    ELSE word
        IN  IF i = Len(filled) THEN text
            ELSE IF brk[i] THEN text \o <<NL>> \o Build(i + 1, filled, brk, word, d, FALSE, 1)
            ELSE text \o <<d>> \o Build(i + 1, filled, brk, word, d, inHeader, col + 1)

DelimiterSet == {Delimiters[i] : i \in 1..Len(Delimiters)}

Files ==
    UNION { { [bytes |-> Build(1, filled, brk, word, d, TRUE, 1), delim |-> d] :
                filled \in [1..n -> BOOLEAN], brk \in [1..(n - 1) -> BOOLEAN],
                word \in Words, d \in DelimiterSet } : n \in 1..MaxCells }

SampleFile == [bytes |-> <<"a", ",", "b", NL, "x", ",", "x">>, delim |-> ","]

Suffixes == { <<".", "c", "s", "v">>, <<".", "C", "S", "V">>, <<".", "C", "s", "v">>,
              <<".", "t", "x", "t">>, <<>> }

(***************************************************************************)
(* create_enhanced_html_template: the filter options of a column.          *)
(***************************************************************************)
\* code points of the characters of the page's texts
CharCode(c) ==
    CASE c = " " -> 32 [] c = QUOTE -> 34 [] c = "," -> 44
      [] c = "A" -> 65 [] c = "B" -> 66 [] c = "X" -> 88
      [] c = "N" -> 78 [] c = "a" -> 97 [] c = "b" -> 98
      [] c = "p" -> 112 [] c = "q" -> 113 [] c = "x" -> 120
      [] c = Latin1Char -> 233
      [] OTHER -> 127

RECURSIVE StrLess(_, _)
\* s < t for Python strings
StrLess(s, t) ==
    IF t = <<>> THEN FALSE
    ELSE IF s = <<>> THEN TRUE
    ELSE IF Head(s) = Head(t) THEN StrLess(Tail(s), Tail(t))
    ELSE CharCode(Head(s)) < CharCode(Head(t))

RECURSIVE SortedSeq(_)
\* sorted(S)
SortedSeq(S) ==
    IF S = {} THEN <<>>
    ELSE LET least == CHOOSE x \in S : \A y \in S \ {x} : StrLess(x, y)
         IN  <<least>> \o SortedSeq(S \ {least})

ColumnValues(t, col) == {t.rows[r][col] : r \in 1..Len(t.rows)}

\* the values from the greatest to the least
FilterOptionsDescending(t, col) ==
    LET ascending == SortedSeq(ColumnValues(t, col))
    IN  [k \in 1..Len(ascending) |-> ascending[Len(ascending) + 1 - k]]

\* sorted(df[col].astype(str).unique())
FilterOptions(t, col) == SortedSeq(ColumnValues(t, col))

\* the selects of the filter dropdowns: data-column and the options after All
FilterSelects(t) ==
    [col \in 1..Len(t.columns) |->
        [dataColumn |-> col - 1, options |-> FilterOptions(t, col)]]

(***************************************************************************)
(* The command-line run.                                                   *)
(***************************************************************************)
InitCli ==
    /\ pc = "convert"
    /\ inputExists \in BOOLEAN
    /\ inputSuffix \in Suffixes
    /\ \E f \in (IF inputExists /\ inputSuffix = <<".", "c", "s", "v">>
                    THEN Files ELSE {SampleFile}) :
            /\ fileBytes = (IF inputExists THEN f.bytes ELSE <<>>)
            /\ trueDelim = f.delim
    /\ encIdx = 1
    /\ delimIdx = 1
    /\ tried = <<>>
    /\ outcomes = <<>>
    /\ df = NoFrame("unset")
    /\ table = NoTable
    /\ html = "none"
    /\ outputFile = "absent"
    /\ result = "unset"
    /\ exitStatus = -1
    /\ loaderCalls = 0
    /\ generatorCalls = 0
    /\ filterSelects = <<>>
    /\ searchValue = <<>>
    /\ filterValue = <<>>
    /\ filteredRows = <<>>
    /\ rowDisplay = <<>>
    /\ filteredShown = 0
    /\ totalShown = 0
    /\ timers = <<>>
    /\ overlay = FALSE
    /\ download = <<>>
    /\ afterReset = "no"

\* convert_csv_to_html up to the call of create_html_from_csv: a missing input
\* or a wrong extension raises, and the handler returns None
CheckInput ==
    /\ pc = "convert"
    /\ IF inputExists /\ SuffixIsCsv(inputSuffix)
          THEN /\ pc' = "attempt"
               /\ loaderCalls' = loaderCalls + 1
               /\ UNCHANGED result
          ELSE /\ pc' = "exit"
               /\ result' = "None"
               /\ UNCHANGED loaderCalls
    /\ UNCHANGED <<inputExists, inputSuffix, fileBytes, trueDelim, encIdx, delimIdx,
                   tried, outcomes, df, table, html, outputFile, exitStatus,
                   generatorCalls, filterSelects>>
    /\ UNCHANGED pageVars

\* the outcome of one read_csv attempt of the search
Outcome(frame) ==
    IF frame.status # "ok" THEN "error"
    ELSE IF Acceptable(frame) THEN "accepted"
    ELSE "rejected"

\* the loops nested the other way round: the encodings in the inner loop
AdvanceEncodingFirst(e, d) ==
    IF e < Len(Encodings) THEN <<e + 1, d>>
    ELSE IF d < Len(Delimiters) THEN <<1, d + 1>>
    ELSE <<0, 0>>

\* for encoding in encodings: for delimiter in delimiters: the indices of the
\* iteration after <<e, d>>, <<0, 0>> when the loops are over
Advance(e, d) ==
    IF d < Len(Delimiters) THEN <<e, d + 1>>
    ELSE IF e < Len(Encodings) THEN <<e + 1, 1>>
    ELSE <<0, 0>>

\* one iteration of the loops over encodings and delimiters
TryCombination ==
    /\ pc = "attempt"
    /\ LET frame == ReadCsv(fileBytes, Encodings[encIdx], Delimiters[delimIdx])
           out == Outcome(frame)
           next == Advance(encIdx, delimIdx)
       IN  /\ tried' = Append(tried, <<Encodings[encIdx], Delimiters[delimIdx]>>)
           /\ outcomes' = Append(outcomes, out)
           /\ IF out = "accepted"
                 THEN /\ df' = frame
                      /\ pc' = "loaded"
                      /\ UNCHANGED <<encIdx, delimIdx>>
              ELSE IF next # <<0, 0>>
                 THEN /\ encIdx' = next[1]
                      /\ delimIdx' = next[2]
                      /\ UNCHANGED <<df, pc>>
              ELSE /\ pc' = "manual"
                   /\ UNCHANGED <<encIdx, delimIdx, df>>
    /\ UNCHANGED <<inputExists, inputSuffix, fileBytes, trueDelim, table, html,
                   outputFile, result, exitStatus, loaderCalls, generatorCalls,
                   filterSelects>>
    /\ UNCHANGED pageVars

\* the manual parser, reached when no combination was accepted
ManualFallback ==
    /\ pc = "manual"
    /\ df' = ManualParse(fileBytes)
    /\ pc' = "loaded"
    /\ UNCHANGED <<inputExists, inputSuffix, fileBytes, trueDelim, encIdx, delimIdx,
                   tried, outcomes, table, html, outputFile, result, exitStatus,
                   loaderCalls, generatorCalls, filterSelects>>
    /\ UNCHANGED pageVars

\* create_html_from_csv after the loader returned: any exception gives the
\* error page
CreateHtml ==
    /\ pc = "loaded"
    /\ IF Unusable(df) \/ RepeatedLabel(CleanColumns(df))
          THEN /\ html' = "error"
               /\ UNCHANGED <<table, generatorCalls, filterSelects>>
          ELSE /\ table' = Normalize(df)
               /\ generatorCalls' = generatorCalls + 1
               /\ filterSelects' = FilterSelects(Normalize(df))
               /\ html' = "data"
    /\ pc' = "write"
    /\ UNCHANGED <<inputExists, inputSuffix, fileBytes, trueDelim, encIdx, delimIdx,
                   tried, outcomes, df, outputFile, result, exitStatus, loaderCalls>>
    /\ UNCHANGED pageVars

\* convert_csv_to_html after create_html_from_csv returned
WriteOutput ==
    /\ pc = "write"
    /\ outputFile' = html
    /\ result' = "path"
    /\ pc' = "exit"
    /\ UNCHANGED <<inputExists, inputSuffix, fileBytes, trueDelim, encIdx, delimIdx,
                   tried, outcomes, df, table, html, exitStatus, loaderCalls,
                   generatorCalls, filterSelects>>
    /\ UNCHANGED pageVars

\* main: sys.exit(0) if result else sys.exit(1)
MainExit ==
    /\ pc = "exit"
    /\ exitStatus' = (IF result = "path" THEN 0 ELSE 1)
    /\ pc' = "done"
    /\ UNCHANGED <<inputExists, inputSuffix, fileBytes, trueDelim, encIdx, delimIdx,
                   tried, outcomes, df, table, html, outputFile, result, loaderCalls,
                   generatorCalls, filterSelects>>
    /\ UNCHANGED pageVars

Init == InitCli

Next ==
    \/ CheckInput
    \/ TryCombination
    \/ ManualFallback
    \/ CreateHtml
    \/ WriteOutput
    \/ MainExit

Spec == Init /\ [][Next]_vars

(***************************************************************************)
(* The script of the generated page.  A row is named by its index in       *)
(* originalRows; table is the table the page was generated from.           *)
(***************************************************************************)
ApplyDelay == 100
ClearDelay == 300
ExportDelay == 500

OriginalRows == [r \in 1..Len(table.rows) |-> r]

\* String.prototype.includes
Includes(s, t) ==
    \E i \in 0..(Len(s) - Len(t)) : SubSeq(s, i + 1, i + Len(t)) = t

\* the column filters of applyFilters, select after select
RECURSIVE ColumnFilter(_, _, _, _)
ColumnFilter(t, rows, values, col) ==
    IF col > Len(values) THEN rows
    ELSE IF values[col] # <<>>
        THEN ColumnFilter(t, SelectSeq(rows, LAMBDA r : Strip(t.rows[r][col]) = values[col]),
                          values, col + 1)
    ELSE ColumnFilter(t, rows, values, col + 1)

\* no search filter
SearchFilterOff(t, rows, term) == rows

\* the search filter of applyFilters
SearchFilter(t, rows, term) ==
    IF term # <<>>
        THEN SelectSeq(rows, LAMBDA r :
                \E col \in 1..Len(t.rows[r]) : Includes(Lower(t.rows[r][col]), term))
        ELSE rows

\* the search text compared as typed
ApplyFiltersCaseSensitive(t, search, values) ==
    SearchFilter(t, ColumnFilter(t, [r \in 1..Len(t.rows) |-> r], values, 1), search)

\* the rows applyFilters assigns to filteredRows
ApplyFilters(t, search, values) ==
    SearchFilter(t, ColumnFilter(t, [r \in 1..Len(t.rows) |-> r], values, 1), Lower(search))

\* every row shown
TableDisplayAll(t, rows) == [r \in 1..Len(t.rows) |-> ""]

\* updateTableDisplay: every row hidden, then the filtered rows shown
TableDisplay(t, rows) ==
    [r \in 1..Len(t.rows) |->
        IF \E k \in 1..Len(rows) : rows[k] = r THEN "" ELSE "none"]

\* the number of all the rows
StatsOfAllRows(rows) == Len(table.rows)

\* updateStats
Stats(rows) == Len(rows)

RECURSIVE Join(_, _)
Join(parts, sep) ==
    IF parts = <<>> THEN <<>>
    ELSE IF Len(parts) = 1 THEN parts[1]
    ELSE parts[1] \o sep \o Join(Tail(parts), sep)

RECURSIVE DoubleQuotes(_)
\* cell.textContent.replace(/"/g, '""')
DoubleQuotes(s) ==
    IF s = <<>> THEN <<>>
    ELSE IF Head(s) = QUOTE THEN <<QUOTE, QUOTE>> \o DoubleQuotes(Tail(s))
    ELSE <<Head(s)>> \o DoubleQuotes(Tail(s))

QuotedCell(c) == <<QUOTE>> \o DoubleQuotes(c) \o <<QUOTE>>

\* every row of the table
ExportAllRows(rows) == OriginalRows

\* the rows exportToCSV writes
ExportRows(rows) == rows

\* csvContent of exportToCSV
ExportCsv(t, rows) ==
    Join(<<Join(t.columns, <<",">>)>> \o
         [k \in 1..Len(ExportRows(rows)) |->
            Join([i \in 1..Len(t.columns) |-> QuotedCell(t.rows[ExportRows(rows)[k]][i])], <<",">>)],
         <<NL>>)

\* the rows of the table body whose display is not none, in document order
Displayed == SelectSeq(OriginalRows, LAMBDA r : rowDisplay[r] = "")

PageCells == { <<"a">>, <<"A", "b">> }
PageColumns == <<<<"a">>, <<"b">>>>
SearchTerms == { <<"a", "B">> }

PageRows == [1..Len(PageColumns) -> PageCells]

PageTables ==
    UNION { { [columns |-> PageColumns, rows |-> rows] : rows \in [1..n -> PageRows] } :
            n \in 1..MaxRows }

\* the page as loaded: the state after the script has run once
InitPage ==
    /\ pc = "done"
    /\ inputExists = TRUE
    /\ inputSuffix = <<".", "c", "s", "v">>
    /\ fileBytes = <<>>
    /\ trueDelim = ","
    /\ encIdx = 1
    /\ delimIdx = 1
    /\ tried = <<>>
    /\ outcomes = <<>>
    /\ df = NoFrame("unset")
    /\ table \in PageTables
    /\ html = "data"
    /\ outputFile = "data"
    /\ result = "path"
    /\ exitStatus = 0
    /\ loaderCalls = 1
    /\ generatorCalls = 1
    /\ filterSelects = FilterSelects(table)
    /\ searchValue = <<>>
    /\ filterValue = [col \in 1..Len(table.columns) |-> <<>>]
    /\ filteredRows = OriginalRows
    /\ rowDisplay = [r \in 1..Len(table.rows) |-> ""]
    /\ filteredShown = Len(table.rows)
    /\ totalShown = Len(table.rows)
    /\ timers = <<>>
    /\ overlay = FALSE
    /\ download = <<>>
    /\ afterReset = "no"

Schedule(kind, delay) == Append(timers, [kind |-> kind, delay |-> delay])

\* the input listener of the search box: the overlay, then applyFilters in 100 ms
SearchInput ==
    /\ Len(timers) < MaxPending
    /\ \E v \in SearchTerms \cup {<<>>} :
        /\ v # searchValue
        /\ searchValue' = v
    /\ overlay' = TRUE
    /\ timers' = Schedule("apply", ApplyDelay)
    /\ download' = <<>>
    /\ afterReset' = "no"
    /\ UNCHANGED <<filterValue, filteredRows, rowDisplay, filteredShown, totalShown>>
    /\ UNCHANGED cliVars

\* the change listener of a filter: the overlay, then applyFilters in 100 ms
FilterChange ==
    /\ Len(timers) < MaxPending
    /\ \E col \in 1..Len(table.columns) :
        \E v \in ColumnValues(table, col) \cup {<<>>} :
            /\ v # filterValue[col]
            /\ filterValue' = [filterValue EXCEPT ![col] = v]
    /\ overlay' = TRUE
    /\ timers' = Schedule("apply", ApplyDelay)
    /\ download' = <<>>
    /\ afterReset' = "no"
    /\ UNCHANGED <<searchValue, filteredRows, rowDisplay, filteredShown, totalShown>>
    /\ UNCHANGED cliVars

\* clearAllFilters: the overlay, then the reset in 300 ms
ClickReset ==
    /\ Len(timers) < MaxPending
    /\ overlay' = TRUE
    /\ timers' = Schedule("clear", ClearDelay)
    /\ download' = <<>>
    /\ UNCHANGED <<searchValue, filterValue, filteredRows, rowDisplay, filteredShown,
                   totalShown, afterReset>>
    /\ UNCHANGED cliVars

\* exportToCSV: the overlay, then the export in 500 ms
ClickExport ==
    /\ Len(timers) < MaxPending
    /\ overlay' = TRUE
    /\ timers' = Schedule("export", ExportDelay)
    /\ download' = <<>>
    /\ UNCHANGED <<searchValue, filterValue, filteredRows, rowDisplay, filteredShown,
                   totalShown, afterReset>>
    /\ UNCHANGED cliVars

\* a pending callback may run next unless a callback set earlier with a delay
\* no longer than its own is still pending
MayRun(k) == \A j \in 1..(k - 1) : timers[j].delay > timers[k].delay

Remove(seq, k) == SubSeq(seq, 1, k - 1) \o SubSeq(seq, k + 1, Len(seq))

\* the callback of the listeners: applyFilters, hideLoadingOverlay
RunApply ==
    \E k \in 1..Len(timers) :
        /\ timers[k].kind = "apply"
        /\ MayRun(k)
        /\ timers' = Remove(timers, k)
        /\ LET rows == ApplyFilters(table, searchValue, filterValue) IN
            /\ filteredRows' = rows
            /\ rowDisplay' = TableDisplay(table, rows)
            /\ filteredShown' = Stats(rows)
        /\ overlay' = FALSE
        /\ download' = <<>>
        /\ afterReset' = (IF afterReset = "no" THEN "no" ELSE "recomputed")
        /\ UNCHANGED <<searchValue, filterValue, totalShown>>
        /\ UNCHANGED cliVars

\* the selects left as they are
FiltersKept(values) == values

\* filterSelects.forEach(select => select.value = '')
ClearedFilters(values) == [col \in 1..Len(values) |-> <<>>]

\* the callback of clearAllFilters
RunClear ==
    \E k \in 1..Len(timers) :
        /\ timers[k].kind = "clear"
        /\ MayRun(k)
        /\ timers' = Remove(timers, k)
        /\ searchValue' = <<>>
        /\ filterValue' = ClearedFilters(filterValue)
        /\ filteredRows' = OriginalRows
        /\ rowDisplay' = TableDisplay(table, OriginalRows)
        /\ filteredShown' = Stats(OriginalRows)
        /\ overlay' = FALSE
        /\ download' = <<>>
        /\ afterReset' = "reset"
        /\ UNCHANGED totalShown
        /\ UNCHANGED cliVars

\* the callback of exportToCSV
RunExport ==
    \E k \in 1..Len(timers) :
        /\ timers[k].kind = "export"
        /\ MayRun(k)
        /\ timers' = Remove(timers, k)
        /\ download' = ExportCsv(table, filteredRows)
        /\ overlay' = FALSE
        /\ UNCHANGED <<searchValue, filterValue, filteredRows, rowDisplay, filteredShown,
                       totalShown, afterReset>>
        /\ UNCHANGED cliVars

NextPage ==
    \/ SearchInput
    \/ FilterChange
    \/ ClickReset
    \/ ClickExport
    \/ RunApply
    \/ RunClear
    \/ RunExport

SpecPage == InitPage /\ [][NextPage]_vars

\* one table for each number of rows: the rows (Ab, a) and (a, a) in turn
AlternatingTables ==
    { [columns |-> PageColumns,
       rows |-> [r \in 1..n |-> IF r % 2 = 1 THEN <<<<"A", "b">>, <<"a">>>>
                                             ELSE <<<<"a">>, <<"a">>>>]] :
      n \in 1..MaxRows }

InitPageFair == InitPage /\ table \in AlternatingTables

\* a timer that has expired runs its callback: no callback stays pending for
\* ever
SpecPageFair ==
    /\ InitPageFair
    /\ [][NextPage]_vars
    /\ WF_vars(RunApply)
    /\ WF_vars(RunClear)
    /\ WF_vars(RunExport)

(***************************************************************************)
(* Properties of the command-line run.                                     *)
(***************************************************************************)
\* the suffixes that are .csv in some letter case
CsvInAnyCase == { <<".", "c", "s", "v">>, <<".", "C", "S", "V">>, <<".", "C", "s", "v">> }

\* repair_and_read_csv has just returned
JustReturned == pc = "loaded" /\ loaderCalls > 0

LoaderReturned == pc \in {"loaded", "write", "exit", "done"} /\ loaderCalls > 0

\* the conversion failed: no input, a wrong extension, or no usable table
ConversionFailed ==
    \/ ~inputExists
    \/ inputSuffix \notin CsvInAnyCase
    \/ LoaderReturned /\ df.status # "ok"

\* C1: main exits with status 0 only on success: whenever the conversion failed
\* (input not found, wrong extension, or neither a combination nor the manual
\* parser gave a usable table), the exit status is not 0.
C1_ExitZeroOnlyOnSuccess ==
    (pc = "done" /\ ConversionFailed) => exitStatus # 0

\* C2: with a missing input or an extension that is not .csv in any letter case,
\* convert_csv_to_html fails before any parse attempt and before any output
\* file is opened: the loader is never called, no output file exists, and the
\* result is None.
C2_RejectedBeforeLoad ==
    (~inputExists \/ inputSuffix \notin CsvInAnyCase) =>
        /\ loaderCalls = 0
        /\ tried = <<>>
        /\ df.status = "unset"
        /\ outputFile = "absent"
        /\ pc # "convert" => result = "None"
        /\ pc = "done" => exitStatus # 0

C2_Witness ==
    /\ pc = "done"
    /\ inputExists
    /\ inputSuffix = <<".", "t", "x", "t">>
    /\ result = "None"

\* the order of the search as the documentation gives it
DocumentedOrder ==
    << <<"utf-8", ",">>, <<"utf-8", ";">>, <<"utf-8", "\t">>, <<"utf-8", "|">>,
       <<"latin-1", ",">>, <<"latin-1", ";">>, <<"latin-1", "\t">>, <<"latin-1", "|">>,
       <<"cp1252", ",">>, <<"cp1252", ";">>, <<"cp1252", "\t">>, <<"cp1252", "|">>,
       <<"iso-8859-1", ",">>, <<"iso-8859-1", ";">>, <<"iso-8859-1", "\t">>,
       <<"iso-8859-1", "|">> >>

\* the fields of the first data row that hold some text
NonEmptyFields(row) == Cardinality({i \in 1..Len(row) : row[i] # <<>>})

\* the fields of the first data row that are not missing values: neither empty
\* nor one of the reader's markers of a missing value
PresentFields(row) == Cardinality({i \in 1..Len(row) : row[i] \notin NaValues})

\* a combination is acceptable as the code decides it, stated on the fields
AcceptableCombination(c) ==
    LET parsed == Parsed(fileBytes, c[1], c[2]) IN
    /\ parsed.status = "ok"
    /\ Len(parsed.columns) > 1
    /\ Len(parsed.rows) >= 1
    /\ 2 * PresentFields(parsed.rows[1]) > Len(parsed.columns)

\* C3: the combinations are tried in encoding-major, delimiter-minor order, the
\* table returned is that of the first acceptable combination, no earlier
\* combination was acceptable (stated where the loader returns), and nothing
\* is tried after the accepted one.
C3_FirstAcceptedWins ==
    /\ Len(tried) <= Len(DocumentedOrder)
    /\ \A k \in 1..Len(tried) : tried[k] = DocumentedOrder[k]
    /\ JustReturned =>
        \A k \in 1..(Len(tried) - 1) : ~AcceptableCombination(tried[k])
    /\ (tried # <<>> /\ AcceptableCombination(tried[Len(tried)])) =>
        /\ pc \notin {"attempt", "manual"}
        /\ df = ReadCsv(fileBytes, tried[Len(tried)][1], tried[Len(tried)][2])
    /\ (tried # <<>> /\ ~AcceptableCombination(tried[Len(tried)])) =>
        \/ pc = "attempt"
        \/ Len(tried) = Len(DocumentedOrder)
    /\ pc = "manual" => Len(tried) = Len(DocumentedOrder)

C3_Witness ==
    /\ pc = "loaded"
    /\ tried # <<>>
    /\ tried[Len(tried)] = <<"latin-1", ";">>
    /\ df.status = "ok"

\* C4 as claimed: an attempt is accepted if and only if it parses without error,
\* has more than one column, at least one data row, and strictly more than half
\* of the cells of the first data row are non-empty.
C4_AcceptedIffMostlyNonEmpty ==
    \A k \in 1..Len(tried) :
        LET parsed == Parsed(fileBytes, tried[k][1], tried[k][2]) IN
        outcomes[k] = "accepted" <=>
            /\ parsed.status = "ok"
            /\ Len(parsed.columns) > 1
            /\ Len(parsed.rows) >= 1
            /\ 2 * NonEmptyFields(parsed.rows[1]) > Len(parsed.columns)

\* C4 amended: an attempt is accepted if and only if it parses without error,
\* has more than one column, at least one data row, and strictly more than half
\* of the cells of the first data row are not missing values (a cell is missing
\* when it is empty or holds one of the reader's markers such as NA); a row with
\* exactly half of its cells missing is rejected, and an attempt that is
\* rejected or raises never ends the search over the remaining combinations:
\* where the loader returns, each attempt that was not accepted is followed by
\* the next combination, or is the last of them.
C4_AcceptedIffMostlyPresent ==
    /\ Len(outcomes) = Len(tried)
    /\ \A k \in 1..Len(tried) :
        outcomes[k] # "accepted" =>
            \/ k < Len(tried)
            \/ pc = "attempt"
            \/ k = Len(DocumentedOrder)
    /\ JustReturned =>
        \A k \in 1..Len(tried) :
            /\ outcomes[k] = "accepted" <=> AcceptableCombination(tried[k])
            /\ outcomes[k] = "error" <=>
                    Parsed(fileBytes, tried[k][1], tried[k][2]).status # "ok"

\* after attempts that raised, an attempt was rejected because exactly half of
\* its first row is missing, and the search went on
C4_Witness ==
    \E k \in 1..Len(tried) :
        LET parsed == Parsed(fileBytes, tried[k][1], tried[k][2]) IN
        /\ outcomes[k] = "rejected"
        /\ Len(parsed.columns) > 1
        /\ Len(parsed.rows) >= 1
        /\ 2 * PresentFields(parsed.rows[1]) = Len(parsed.columns)
        /\ \E j \in 1..(k - 1) : outcomes[j] = "error"
        /\ k < Len(tried)

\* the loader returned what the manual parser made of the file
ManualPathTaken ==
    /\ LoaderReturned
    /\ Len(tried) = Len(DocumentedOrder)
    /\ outcomes[Len(outcomes)] # "accepted"

\* the k-th least element of a set of numbers
KthOf(S, k) == CHOOSE x \in S : Cardinality({y \in S : y < x}) = k - 1

\* C5: in the manual parser, with N the number of header fields, every data line
\* that splits into exactly N cells is kept, in input order, every other data
\* line is dropped, none is padded or truncated, and the number of rows is the
\* number of non-empty data lines minus the number of mismatched lines.
C5_ManualKeepsExactWidthRows ==
    (ManualPathTaken /\ Len(ManualLines(fileBytes)) >= 2) =>
        LET lines == ManualLines(fileBytes)
            d == ManualDelimiter(lines[1])
            n == Len(Split(lines[1], d))
            matching == {k \in 2..Len(lines) : Len(Split(lines[k], d)) = n}
            mismatched == {k \in 2..Len(lines) : Len(Split(lines[k], d)) # n}
        IN  /\ Len(df.rows) = (Len(lines) - 1) - Cardinality(mismatched)
            /\ df.status = "ok" <=> matching # {}
            /\ df.status = "ok" => Len(df.columns) = n
            /\ \A r \in 1..Len(df.rows) :
                /\ Len(df.rows[r]) = n
                /\ df.rows[r] = ManualCells(lines[KthOf(matching, r)], d)

\* the manual parser kept a line and dropped another
C5_Witness ==
    /\ ManualPathTaken
    /\ df.status = "ok"
    /\ Len(df.rows) < Len(ManualLines(fileBytes)) - 1

\* the reference parse: the lines of the file split at its own delimiter
RefLines == Split(fileBytes, NL)
RefRow(k) == Split(RefLines[k], trueDelim)
RefColumns == Len(RefRow(1))
RefRowCount == Len(RefLines) - 1

\* a header line and at least one data line, no empty line, every line with as
\* many fields as the header
ValidInput ==
    /\ Len(RefLines) >= 2
    /\ \A k \in 1..Len(RefLines) :
        /\ RefLines[k] # <<>>
        /\ Len(RefRow(k)) = RefColumns

SameShapeAsReference ==
    /\ df.status = "ok"
    /\ Len(df.columns) = RefColumns
    /\ Len(df.rows) = RefRowCount

\* C6 as claimed: for every valid input with any supported delimiter whose first
\* data row has more than half of its cells non-empty, the table returned has
\* the column count and the row count of the reference parse, also when cells
\* hold one of the other candidate delimiters.
C6_LoadMatchesReference ==
    (LoaderReturned /\ ValidInput /\ 2 * NonEmptyFields(RefRow(2)) > RefColumns) =>
        SameShapeAsReference

\* no header and no cell holds a candidate delimiter
NoDelimiterInFields ==
    \A k \in 1..Len(RefLines) : \A i \in 1..Len(RefRow(k)) :
        \A j \in 1..Len(Delimiters) : ~Contains(RefRow(k)[i], Delimiters[j])

\* C6 amended: for every valid input with any supported delimiter in which no
\* header and no cell holds a candidate delimiter, whose first data row has more
\* than half of its cells not missing (neither empty nor a marker such as NA),
\* and which has at least two columns or is valid UTF-8, the table returned has
\* the column count and the row count of the reference parse.
C6_LoadMatchesReferenceWhenUnambiguous ==
    (/\ LoaderReturned
     /\ ValidInput
     /\ NoDelimiterInFields
     /\ 2 * PresentFields(RefRow(2)) > RefColumns
     /\ RefColumns > 1 \/ ~Contains(fileBytes, BadByte)) =>
        SameShapeAsReference

\* a pipe-separated file that is not valid UTF-8 was loaded with its own shape
C6_Witness ==
    /\ LoaderReturned
    /\ ValidInput
    /\ NoDelimiterInFields
    /\ 2 * PresentFields(RefRow(2)) > RefColumns
    /\ trueDelim = "|"
    /\ RefColumns = 2
    /\ Contains(fileBytes, BadByte)
    /\ SameShapeAsReference

(***************************************************************************)
(* Properties of the generated page.                                       *)
(***************************************************************************)
ShownRows == {r \in 1..Len(table.rows) : rowDisplay[r] = ""}

\* the step runs the callback that calls applyFilters
ApplyRan ==
    \E k \in 1..Len(timers) : timers[k].kind = "apply" /\ timers' = Remove(timers, k)

EqualIgnoringCase(s, t) ==
    /\ Len(s) = Len(t)
    /\ \A i \in 1..Len(s) : LowerChar(s[i]) = LowerChar(t[i])

ContainsIgnoringCase(s, t) ==
    \E i \in 0..(Len(s) - Len(t)) : EqualIgnoringCase(SubSeq(s, i + 1, i + Len(t)), t)

PassesFilters(r, values) ==
    \A col \in 1..Len(values) : values[col] # <<>> => table.rows[r][col] = values[col]

PassesSearch(r, search) ==
    search = <<>> \/ \E col \in 1..Len(table.rows[r]) :
                        ContainsIgnoringCase(table.rows[r][col], search)

\* C7: after applyFilters has run, a row is shown if and only if its cell equals
\* the value of every filter that has one and, when there is a search text, one
\* of its cells contains that text whatever the letter case; with values on the
\* filters of two columns and no search text the rows shown are the
\* intersection of the rows matching each.
C7_ShownIffFiltersAndSearchPass ==
    [][ApplyRan =>
        /\ \A r \in 1..Len(table.rows) :
            rowDisplay'[r] = "" <=>
                PassesFilters(r, filterValue') /\ PassesSearch(r, searchValue')
        /\ (searchValue' = <<>> /\ filterValue'[1] # <<>> /\ filterValue'[2] # <<>>) =>
            {r \in 1..Len(table.rows) : rowDisplay'[r] = ""} =
                {r \in 1..Len(table.rows) : table.rows[r][1] = filterValue'[1]}
                \cap {r \in 1..Len(table.rows) : table.rows[r][2] = filterValue'[2]}
        /\ filteredRows' = SelectSeq(OriginalRows, LAMBDA r : rowDisplay'[r] = "")
    ]_vars

\* two filters and a search text that differs from the cell by case have been
\* applied: a row is shown and a row is hidden
C7_Witness ==
    /\ timers = <<>>
    /\ filterValue[1] # <<>>
    /\ filterValue[2] # <<>>
    /\ searchValue # <<>>
    /\ ShownRows # {}
    /\ ShownRows # 1..Len(table.rows)
    /\ \A r \in ShownRows : \A col \in 1..Len(table.rows[r]) :
        ~Includes(table.rows[r][col], searchValue)

\* C8: in every state of the page the filtered-rows indicator is the number of
\* rows on display, and the total-rows indicator keeps its value.
C8_IndicatorMatchesDisplay ==
    /\ filteredShown = Cardinality(ShownRows)
    /\ totalShown = Len(table.rows)

\* rows are hidden while callbacks are pending
C8_Witness ==
    /\ Len(timers) = MaxPending
    /\ filteredShown < totalShown
    /\ \E k \in 1..Len(timers) : timers[k].kind = "clear"

AllRowsShown ==
    /\ \A r \in 1..Len(table.rows) : rowDisplay[r] = ""
    /\ filteredRows = OriginalRows

\* C9: once a reset has taken effect and as long as nothing is entered after it,
\* the filters and the search text are empty and every row is on display in
\* the original order, also after a recomputation that was pending when the
\* reset took effect.
C9_ResetRestoresAllRows ==
    afterReset # "no" =>
        /\ searchValue = <<>>
        /\ \A col \in 1..Len(filterValue) : filterValue[col] = <<>>
        /\ AllRowsShown

\* a recomputation has run after the reset took effect
C9_Witness ==
    /\ afterReset = "recomputed"
    /\ AllRowsShown
    /\ Len(table.rows) > 1

\* the text of an export of the rows on display
ExportOfDisplayed ==
    Join(<<Join(table.columns, <<",">>)>> \o
         [k \in 1..Len(Displayed) |->
            Join([col \in 1..Len(table.columns) |->
                    <<QUOTE>> \o DoubleQuotes(table.rows[Displayed[k]][col]) \o <<QUOTE>>],
                 <<",">>)],
         <<NL>>)

\* C10: the text an export builds is the header row followed by exactly the rows
\* on display at that moment, in the original order.
C10_ExportIsDisplayedRows ==
    download # <<>> =>
        /\ download = ExportOfDisplayed
        /\ Len(Split(download, NL)) = 1 + Cardinality(ShownRows)

\* an export was built while a filter or the search hid a row
C10_Witness ==
    /\ download # <<>>
    /\ ShownRows # {}
    /\ ShownRows # 1..Len(table.rows)
    /\ searchValue # <<>> \/ \E col \in 1..Len(filterValue) : filterValue[col] # <<>>

(***************************************************************************)
(* The round trip: the page exports its unfiltered rows, and the text it   *)
(* offered is loaded by repair_and_read_csv.                               *)
(***************************************************************************)
RoundTripColumns == { <<<<"a">>>>, <<<<"a">>, <<"b">>>>, <<<<"p", ",", "q">>, <<"b">>>> }
RoundTripCells == { <<>>, <<"x">>, <<"p", ",", "q">>, <<QUOTE>> }

RoundTripTables ==
    UNION { { [columns |-> columns, rows |-> rows] :
                rows \in UNION { [1..n -> [1..Len(columns) -> RoundTripCells]] :
                                 n \in 1..MaxRows } } :
            columns \in RoundTripColumns }

\* a page generated from a table, as loaded
InitRoundTrip ==
    /\ pc = "done"
    /\ inputExists = TRUE
    /\ inputSuffix = <<".", "c", "s", "v">>
    /\ fileBytes = <<>>
    /\ trueDelim = ","
    /\ encIdx = 1
    /\ delimIdx = 1
    /\ tried = <<>>
    /\ outcomes = <<>>
    /\ df = NoFrame("unset")
    /\ table \in RoundTripTables
    /\ html = "data"
    /\ outputFile = "data"
    /\ result = "path"
    /\ exitStatus = 0
    /\ loaderCalls = 0
    /\ generatorCalls = 1
    /\ filterSelects = FilterSelects(table)
    /\ searchValue = <<>>
    /\ filterValue = [col \in 1..Len(table.columns) |-> <<>>]
    /\ filteredRows = OriginalRows
    /\ rowDisplay = [r \in 1..Len(table.rows) |-> ""]
    /\ filteredShown = Len(table.rows)
    /\ totalShown = Len(table.rows)
    /\ timers = <<>>
    /\ overlay = FALSE
    /\ download = <<>>
    /\ afterReset = "no"

\* the text the export offered is the file repair_and_read_csv is called with
LoadExport ==
    /\ pc = "done"
    /\ download # <<>>
    /\ fileBytes' = download
    /\ loaderCalls' = loaderCalls + 1
    /\ pc' = "attempt"
    /\ UNCHANGED <<inputExists, inputSuffix, trueDelim, encIdx, delimIdx, tried,
                   outcomes, df, table, html, outputFile, result, exitStatus,
                   generatorCalls, filterSelects>>
    /\ UNCHANGED pageVars

NextRoundTrip ==
    \/ pc = "done" /\ ClickExport
    \/ pc = "done" /\ RunExport
    \/ LoadExport
    \/ TryCombination
    \/ ManualFallback

SpecRoundTrip == InitRoundTrip /\ [][NextRoundTrip]_vars

\* the table create_html_from_csv makes of the frame is the exported table
RoundTripped ==
    /\ ~Unusable(df)
    /\ ~RepeatedLabel(CleanColumns(df))
    /\ Normalize(df) = table

\* C11: for every table, the text exported from the unfiltered page (header
\* fields joined by commas, cells double-quoted with quotes doubled), loaded by
\* repair_and_read_csv and normalised, is the original table cell for cell,
\* with the column names, the column order and the row order preserved, also
\* when a column name or a cell holds a comma, a double quote or is empty.
C11_RoundTrip ==
    JustReturned => RoundTripped

(***************************************************************************)
(* The command-line run on files whose fields hold whitespace, double      *)
(* quotes, nothing at all, and repeated names: one or more columns, every   *)
(* line with as many fields as the header, MaxFieldCells cells at most.    *)
(***************************************************************************)
HeaderTexts == { <<"a">>, <<"a", " ">>, <<QUOTE, QUOTE, "b", QUOTE, QUOTE>> }

CellTexts == { <<>>, <<"x", " ">>, <<QUOTE, QUOTE, " ", "x", QUOTE, QUOTE>> }

FieldDelimiters == { ",", ";" }

\* the text of a file: its lines joined by line breaks, the fields of a line
\* joined by the delimiter
FileText(lines, d) == Join([k \in 1..Len(lines) |-> Join(lines[k], <<d>>)], <<NL>>)

FieldFiles ==
    UNION { { [bytes |-> FileText(<<header>> \o rows, d), delim |-> d] :
                header \in [1..c -> HeaderTexts],
                rows \in UNION { [1..r -> [1..c -> CellTexts]] :
                                 r \in {n \in 1..MaxFieldCells : c * (1 + n) <= MaxFieldCells} },
                d \in FieldDelimiters } :
            c \in 1..MaxFieldCells }

InitFields ==
    /\ pc = "convert"
    /\ inputExists = TRUE
    /\ inputSuffix = <<".", "c", "s", "v">>
    /\ \E f \in FieldFiles :
            /\ fileBytes = f.bytes
            /\ trueDelim = f.delim
    /\ encIdx = 1
    /\ delimIdx = 1
    /\ tried = <<>>
    /\ outcomes = <<>>
    /\ df = NoFrame("unset")
    /\ table = NoTable
    /\ html = "none"
    /\ outputFile = "absent"
    /\ result = "unset"
    /\ exitStatus = -1
    /\ loaderCalls = 0
    /\ generatorCalls = 0
    /\ filterSelects = <<>>
    /\ searchValue = <<>>
    /\ filterValue = <<>>
    /\ filteredRows = <<>>
    /\ rowDisplay = <<>>
    /\ filteredShown = 0
    /\ totalShown = 0
    /\ timers = <<>>
    /\ overlay = FALSE
    /\ download = <<>>
    /\ afterReset = "no"

SpecFields == InitFields /\ [][Next]_vars

(***************************************************************************)
(* Properties of the tables handed to the page generator.                  *)
(***************************************************************************)
\* the loader returned, and what it returned has no data row
NoDataRows == LoaderReturned /\ Len(df.rows) = 0

\* C12: an input that parses to zero data rows is a caller-visible error: the
\* page generator is never called with a table of zero rows, no data page is
\* written for it, and convert_csv_to_html reports the failure to its caller
\* (it returns None, and main exits with a non-zero status).
C12_EmptyTableIsError ==
    /\ generatorCalls > 0 => Len(table.rows) > 0
    /\ NoDataRows =>
        /\ generatorCalls = 0
        /\ outputFile # "data"
        /\ pc \in {"exit", "done"} => result = "None"
        /\ pc = "done" => exitStatus # 0

\* a text without leading or trailing whitespace
Trimmed(s) == s = <<>> \/ (s[1] \notin Whitespace /\ s[Len(s)] \notin Whitespace)

HandedToGenerator == generatorCalls > 0

\* C13: every table handed to the page generator, from the structured parser
\* or from the manual parser, is normalised: no cell is a missing-value marker
\* (a missing value is the empty string), no cell and no column name has
\* leading or trailing whitespace, and every row has as many cells as there
\* are columns.
C13_HandedTableIsNormalized ==
    HandedToGenerator =>
        /\ Len(table.columns) = Len(df.columns)
        /\ Len(table.rows) = Len(df.rows)
        /\ \A i \in 1..Len(table.columns) : Trimmed(table.columns[i])
        /\ \A r \in 1..Len(table.rows) :
            /\ Len(table.rows[r]) = Len(table.columns)
            /\ \A i \in 1..Len(table.rows[r]) :
                /\ table.rows[r][i] # NaN
                /\ Trimmed(table.rows[r][i])
                /\ df.rows[r][i] = NaN => table.rows[r][i] = <<>>

\* a table accepted by the structured search that held a missing value, a cell
\* ending in whitespace and a column name ending in whitespace was handed over
C13_Witness ==
    /\ HandedToGenerator
    /\ ~ManualPathTaken
    /\ \E i \in 1..Len(df.columns) : ~Trimmed(df.columns[i])
    /\ \E r \in 1..Len(df.rows) : \E i \in 1..Len(df.rows[r]) : df.rows[r][i] = NaN
    /\ \E r \in 1..Len(df.rows) : \E i \in 1..Len(df.rows[r]) :
            df.rows[r][i] # NaN /\ ~Trimmed(df.rows[r][i])

\* the header fields of the input file, as written
WrittenHeader == Split(Split(fileBytes, NL)[1], trueDelim)

\* C14: the column names of every table the loader produced and the page
\* generator was called with are pairwise distinct, on the structured path and
\* on the manual path, after whitespace has been stripped from the names.
C14_HandedColumnsDistinct ==
    HandedToGenerator =>
        \A i, j \in 1..Len(table.columns) :
            i # j => table.columns[i] # table.columns[j]

\* a file whose header repeats a name was accepted by the structured search,
\* and its table was handed to the page generator
C14_Witness ==
    /\ HandedToGenerator
    /\ ~ManualPathTaken
    /\ \E i, j \in 1..Len(WrittenHeader) : i < j /\ WrittenHeader[i] = WrittenHeader[j]
    /\ Len(table.columns) = Len(WrittenHeader)

(***************************************************************************)
(* Properties of the page's deferred callbacks.                            *)
(***************************************************************************)
\* the rows on display are those the current search text and the current
\* filter values select
DisplayCurrent ==
    \A r \in 1..Len(table.rows) :
        rowDisplay[r] = "" <=>
            PassesFilters(r, filterValue) /\ PassesSearch(r, searchValue)

\* a callback that calls applyFilters has been set and has not run yet
ApplyPending == \E k \in 1..Len(timers) : timers[k].kind = "apply"

\* C15 as claimed: the rows are recomputed synchronously with every search
\* input and filter change: in no reachable state do the rows on display
\* differ from those the current search text and filter values select.
C15_DisplayAlwaysCurrent == DisplayCurrent

\* C15 amended: every search input and filter change sets a recomputation over
\* all the original rows to run 100 ms later: in every reachable state the
\* rows on display are those the current search text and filter values
\* select, or such a recomputation is still pending.
C15_DisplayCurrentOrApplyPending == DisplayCurrent \/ ApplyPending

\* the recomputation for a search text has run and hides a row, and another
\* callback is still pending
C15_Witness ==
    /\ ~ApplyPending
    /\ timers # <<>>
    /\ searchValue # <<>>
    /\ ShownRows # 1..Len(table.rows)

(***************************************************************************)
(* The page generator on the frames the structured search accepts at its   *)
(* first attempt: two columns, cells that differ by case and by length.    *)
(***************************************************************************)
OptionCells == { <<>>, <<"a">>, <<"B">>, <<"a", "b">> }
SecondCells == { <<"a">>, <<"B">> }

OptionFiles ==
    { FileText(<<<<<<"a">>, <<"b">>>>>> \o rows, ",") :
        rows \in UNION { [1..n -> {<<first, second>> : first \in OptionCells,
                                                       second \in SecondCells}] :
                         n \in 1..MaxOptionRows } }

\* repair_and_read_csv has returned the frame of its first attempt
InitGenerate ==
    /\ pc = "loaded"
    /\ inputExists = TRUE
    /\ inputSuffix = <<".", "c", "s", "v">>
    /\ fileBytes \in OptionFiles
    /\ Acceptable(ReadCsv(fileBytes, Encodings[1], Delimiters[1]))
    /\ trueDelim = ","
    /\ encIdx = 1
    /\ delimIdx = 1
    /\ tried = << <<Encodings[1], Delimiters[1]>> >>
    /\ outcomes = <<"accepted">>
    /\ df = ReadCsv(fileBytes, Encodings[1], Delimiters[1])
    /\ table = NoTable
    /\ html = "none"
    /\ outputFile = "absent"
    /\ result = "unset"
    /\ exitStatus = -1
    /\ loaderCalls = 1
    /\ generatorCalls = 0
    /\ filterSelects = <<>>
    /\ searchValue = <<>>
    /\ filterValue = <<>>
    /\ filteredRows = <<>>
    /\ rowDisplay = <<>>
    /\ filteredShown = 0
    /\ totalShown = 0
    /\ timers = <<>>
    /\ overlay = FALSE
    /\ download = <<>>
    /\ afterReset = "no"

NextGenerate ==
    \/ CreateHtml
    \/ WriteOutput
    \/ MainExit

SpecGenerate == InitGenerate /\ [][NextGenerate]_vars

\* code points of the characters of the option texts
CodePoint(c) == CASE c = "B" -> 66 [] c = "a" -> 97 [] c = "b" -> 98

\* s comes before t in the case-sensitive lexicographic order
RECURSIVE LexBefore(_, _)
LexBefore(s, t) ==
    IF t = <<>> THEN FALSE
    ELSE IF s = <<>> THEN TRUE
    ELSE IF s[1] # t[1] THEN CodePoint(s[1]) < CodePoint(t[1])
    ELSE LexBefore(Tail(s), Tail(t))

\* C16: for each column index i the options of filter i after All are exactly
\* the distinct values of column i over all rows, each once, in ascending
\* case-sensitive lexicographic order, and the select of column i carries
\* data-column = i, in column order.
C16_OptionsAreSortedDistinctValues ==
    HandedToGenerator =>
        /\ Len(filterSelects) = Len(table.columns)
        /\ \A col \in 1..Len(filterSelects) :
            LET options == filterSelects[col].options IN
            /\ filterSelects[col].dataColumn = col - 1
            /\ {options[k] : k \in 1..Len(options)} =
                    {table.rows[r][col] : r \in 1..Len(table.rows)}
            /\ \A j, k \in 1..Len(options) : j < k => LexBefore(options[j], options[k])

\* a column with three values, one of them in upper case and one the start of
\* another, got its options
C16_Witness ==
    /\ HandedToGenerator
    /\ \E col \in 1..Len(filterSelects) :
        /\ Len(filterSelects[col].options) >= 3
        /\ \E k \in 1..Len(filterSelects[col].options) :
            filterSelects[col].options[k] = <<"B">>
        /\ \E k \in 1..Len(filterSelects[col].options) :
            filterSelects[col].options[k] = <<"a", "b">>

(***************************************************************************)
(* Properties of the fields of the manual parser.                          *)
(***************************************************************************)
\* a text without one pair of surrounding double quotes, if it has one
WithoutOnePair(s) ==
    IF Len(s) >= 2 /\ s[1] = QUOTE /\ s[Len(s)] = QUOTE
        THEN SubSeq(s, 2, Len(s) - 1)
        ELSE s

\* a text without its leading and trailing whitespace
WithoutSurroundingSpace(s) ==
    LET kept == {i \in 1..Len(s) : s[i] \notin Whitespace}
    IN  IF kept = {} THEN <<>>
        ELSE SubSeq(s, CHOOSE i \in kept : \A j \in kept : i <= j,
                       CHOOSE i \in kept : \A j \in kept : i >= j)

\* C17: in the manual parser every header field and every data cell is the
\* text between the delimiters without its surrounding whitespace and then
\* without at most one pair of surrounding double quotes: any further double
\* quote at the start or the end is kept.
C17_ManualStripsOnePair ==
    (ManualPathTaken /\ df.status = "ok") =>
        LET lines == ManualLines(fileBytes)
            d == ManualDelimiter(lines[1])
            n == Len(Split(lines[1], d))
            matching == {k \in 2..Len(lines) : Len(Split(lines[k], d)) = n}
            Field(k, i) == WithoutOnePair(WithoutSurroundingSpace(Split(lines[k], d)[i]))
        IN  /\ \A i \in 1..Len(df.columns) : df.columns[i] = Field(1, i)
            /\ \A r \in 1..Len(df.rows) : \A i \in 1..Len(df.rows[r]) :
                    df.rows[r][i] = Field(KthOf(matching, r), i)

\* a search input, a filter change, a click on reset or a click on export
UserEvent == SearchInput \/ FilterChange \/ ClickReset \/ ClickExport

\* filteredRows holds original rows in their original order, none twice
OrderedSubsequence ==
    /\ \A k \in 1..Len(filteredRows) : filteredRows[k] \in 1..Len(table.rows)
    /\ \A j, k \in 1..Len(filteredRows) : j < k => filteredRows[j] < filteredRows[k]

Quiescent == timers = <<>> /\ DisplayCurrent /\ OrderedSubsequence

\* C18: after any finite sequence of search, filter, reset and export events,
\* once no further event arrives every deferred callback fires, and from then
\* on the rows on display are those the current search text and filter values
\* select, and filteredRows is an order-preserving, duplicate-free subsequence
\* of the original rows.
C18_EventuallyCurrent ==
    []<><<UserEvent>>_vars \/ <>[]Quiescent

\* every callback has fired, no reset is in effect, and a filter hides a row
C18_Witness ==
    /\ timers = <<>>
    /\ searchValue = <<>>
    /\ \E col \in 1..Len(filterValue) : filterValue[col] # <<>>
    /\ Len(filteredRows) < Len(table.rows)
    /\ afterReset = "no"
    /\ Quiescent

\* C19: the busy overlay is shown whenever a deferred action (a recomputation,
\* a reset or an export) is pending and hidden once none is pending: a
\* callback that finishes while another action is pending does not hide it.
C19_OverlayWhilePending == overlay <=> timers # <<>>

====
